---- MODULE Spec2Model ----
(***************************************************************************)
(* Transaction state machine of transaction_processor (src/engine.rs,      *)
(* src/models.rs).  One step of the model is one iteration of the loop of  *)
(* process_transactions: an operation record is read, the client's account *)
(* is looked up or created, the transition of the record's kind is applied *)
(* and, for resolve and chargeback, cleanup_transaction runs.  The body of  *)
(* the loop is the operator process_record; the properties of a transition *)
(* are stated on its result in every reachable state.                      *)
(*                                                                         *)
(* Decimal values are exact; they are modelled as integers (a count of the *)
(* smallest unit).  Option<Decimal> is modelled as a set with at most one  *)
(* element: {} is None and {a} is Some(a).                                 *)
(***************************************************************************)
EXTENDS Integers, FiniteSets, Sequences, TLC

\* Bounds of the model.
MaxOps == 4
MaxClient == 2
MaxTx == 2
MaxAmt == 1

Clients == 1..MaxClient
TxIds == 1..MaxTx
\* amount column of a record: absent, negative, zero or positive
Amounts == {{}} \cup {{a} : a \in (-1)..MaxAmt}
\* OperationType
OperationType == {"deposit", "withdrawal", "dispute", "resolve", "chargeback"}

VARIABLES
    client_balances,   \* HashMap<u16, ClientBalance>
    transaction_log,   \* HashMap<u32, TransactionState>
    dispute_tracker,   \* HashSet<u32>
    nops,              \* number of records consumed from the reader
    status,            \* the run: "running", "parse_error", "apply_error", "done"
    output,            \* what main has written to stdout
    sample,            \* history: how far the records read so far follow each
                       \* sample stream of the tests (-1: they do not)
    recorded,          \* history: tx ids of deposits/withdrawals that succeeded
    disputed,          \* history: tx ids that were successfully disputed
    resolved,          \* history: tx ids that were successfully resolved
    charged_back       \* history: clients for which a chargeback succeeded

vars == <<client_balances, transaction_log, dispute_tracker, nops, status,
          output, sample, recorded, disputed, resolved, charged_back>>

\* ClientBalance::new
ClientBalance_new == [available |-> 0, held |-> 0, locked |-> FALSE]

\* OperationRecord
OperationRecord(type, client, tx, amount) ==
    [type |-> type, client |-> client, tx |-> tx, amount |-> amount]

\* dec!(int.frac): a decimal literal as a count of ten-thousandths
dec(int, frac) == int * 10000 + frac

\* the stream of integration_test_sample
Sample1 ==
    <<OperationRecord("deposit", 1, 1, {dec(1, 0)}),
      OperationRecord("deposit", 2, 2, {dec(2, 0)}),
      OperationRecord("deposit", 1, 3, {dec(2, 0)}),
      OperationRecord("withdrawal", 1, 4, {dec(1, 5000)}),
      OperationRecord("withdrawal", 2, 5, {dec(3, 0)})>>

\* the stream of integration_test_dispute_chain
Sample2 ==
    <<OperationRecord("deposit", 1, 1, {dec(10, 0)}),
      OperationRecord("dispute", 1, 1, {}),
      OperationRecord("resolve", 1, 1, {}),
      OperationRecord("deposit", 1, 2, {dec(5, 0)}),
      OperationRecord("dispute", 1, 2, {}),
      OperationRecord("chargeback", 1, 2, {})>>

\* the records of the two sample streams
SampleRecords ==
    {Sample1[i] : i \in 1..Len(Sample1)} \cup {Sample2[i] : i \in 1..Len(Sample2)}

\* the length of the longer sample stream
SampleLen == IF Len(Sample1) > Len(Sample2) THEN Len(Sample1) ELSE Len(Sample2)

\* the position in stream smp after rec is read at position pos
follow(smp, pos, rec) ==
    IF pos >= 0 /\ pos < Len(smp) /\ smp[pos + 1] = rec THEN pos + 1 ELSE -1

\* TransactionState
TransactionState(client, amt, is_deposit) ==
    [client |-> client, amount |-> amt, is_deposit |-> is_deposit]

\* HashMap::insert
insert(map, k, v) ==
    [x \in (DOMAIN map) \cup {k} |-> IF x = k THEN v ELSE map[x]]

\* HashMap::remove
remove(map, k) ==
    [x \in (DOMAIN map) \ {k} |-> map[x]]

\* or_insert_with that starts a fresh ledger for a client it does not know
or_insert_with_forgets(balances, client) ==
    IF client \in DOMAIN balances THEN balances
    ELSE [x \in {client} |-> ClientBalance_new]

\* or_insert_with that writes the fresh balance over every account when it
\* adds a client
or_insert_with_resets(balances, client) ==
    IF client \in DOMAIN balances THEN balances
    ELSE [x \in (DOMAIN balances) \cup {client} |-> ClientBalance_new]

\* client_balances.entry(record.client).or_insert_with(ClientBalance::new)
or_insert_with(balances, client) ==
    IF client \in DOMAIN balances THEN balances
    ELSE insert(balances, client, ClientBalance_new)

\* apply_deposit that tests amt >= 0 instead of amt > 0
apply_deposit_accepts_zero(log, balance, tx, client, amount) ==
    IF \E amt \in amount : amt >= 0 /\ ~balance.locked /\ tx \notin DOMAIN log
    THEN LET amt == CHOOSE a \in amount : TRUE
         IN [balance |-> [balance EXCEPT !.available = @ + amt],
             transaction_log |-> insert(log, tx, TransactionState(client, amt, TRUE))]
    ELSE [balance |-> balance, transaction_log |-> log]

\* apply_deposit with the locked test dropped
apply_deposit_ignores_lock(log, balance, tx, client, amount) ==
    IF \E amt \in amount : amt > 0 /\ tx \notin DOMAIN log
    THEN LET amt == CHOOSE a \in amount : TRUE
         IN [balance |-> [balance EXCEPT !.available = @ + amt],
             transaction_log |-> insert(log, tx, TransactionState(client, amt, TRUE))]
    ELSE [balance |-> balance, transaction_log |-> log]

\* apply_deposit: the balance and the log it leaves
apply_deposit(log, balance, tx, client, amount) ==
    IF \E amt \in amount : amt > 0 /\ ~balance.locked /\ tx \notin DOMAIN log
    THEN LET amt == CHOOSE a \in amount : TRUE
         IN [balance |-> [balance EXCEPT !.available = @ + amt],
             transaction_log |-> insert(log, tx, TransactionState(client, amt, TRUE))]
    ELSE [balance |-> balance, transaction_log |-> log]

\* apply_withdrawal that logs its record as a deposit
apply_withdrawal_logs_deposit(balance, tx, client, amount, log) ==
    IF \E amt \in amount : /\ amt > 0
                           /\ ~balance.locked
                           /\ balance.available >= amt
                           /\ tx \notin DOMAIN log
    THEN LET amt == CHOOSE a \in amount : TRUE
         IN [balance |-> [balance EXCEPT !.available = @ - amt],
             transaction_log |-> insert(log, tx, TransactionState(client, amt, TRUE))]
    ELSE [balance |-> balance, transaction_log |-> log]

\* apply_withdrawal with the sufficient-funds test dropped
apply_withdrawal_overdraws(balance, tx, client, amount, log) ==
    IF \E amt \in amount : /\ amt > 0
                           /\ ~balance.locked
                           /\ tx \notin DOMAIN log
    THEN LET amt == CHOOSE a \in amount : TRUE
         IN [balance |-> [balance EXCEPT !.available = @ - amt],
             transaction_log |-> insert(log, tx, TransactionState(client, amt, FALSE))]
    ELSE [balance |-> balance, transaction_log |-> log]

\* apply_withdrawal: the balance and the log it leaves
apply_withdrawal(balance, tx, client, amount, log) ==
    IF \E amt \in amount : /\ amt > 0
                           /\ ~balance.locked
                           /\ balance.available >= amt
                           /\ tx \notin DOMAIN log
    THEN LET amt == CHOOSE a \in amount : TRUE
         IN [balance |-> [balance EXCEPT !.available = @ - amt],
             transaction_log |-> insert(log, tx, TransactionState(client, amt, FALSE))]
    ELSE [balance |-> balance, transaction_log |-> log]

\* apply_dispute that also asks for an unlocked account
apply_dispute_needs_unlocked(balance, tx, client, log, tracker) ==
    IF /\ tx \in DOMAIN log
       /\ log[tx].client = client
       /\ log[tx].is_deposit
       /\ ~balance.locked
       /\ tx \notin tracker
    THEN LET amt == log[tx].amount
         IN [balance |-> [balance EXCEPT !.available = @ - amt, !.held = @ + amt],
             dispute_tracker |-> tracker \cup {tx}]
    ELSE [balance |-> balance, dispute_tracker |-> tracker]

\* apply_dispute with the is_deposit test dropped
apply_dispute_any_kind(balance, tx, client, log, tracker) ==
    IF /\ tx \in DOMAIN log
       /\ log[tx].client = client
       /\ tx \notin tracker
    THEN LET amt == log[tx].amount
         IN [balance |-> [balance EXCEPT !.available = @ - amt, !.held = @ + amt],
             dispute_tracker |-> tracker \cup {tx}]
    ELSE [balance |-> balance, dispute_tracker |-> tracker]

\* apply_dispute with the owner test dropped
apply_dispute_any_client(balance, tx, client, log, tracker) ==
    IF /\ tx \in DOMAIN log
       /\ log[tx].is_deposit
       /\ tx \notin tracker
    THEN LET amt == log[tx].amount
         IN [balance |-> [balance EXCEPT !.available = @ - amt, !.held = @ + amt],
             dispute_tracker |-> tracker \cup {tx}]
    ELSE [balance |-> balance, dispute_tracker |-> tracker]

\* apply_dispute: the balance and the dispute set it leaves
apply_dispute(balance, tx, client, log, tracker) ==
    IF /\ tx \in DOMAIN log
       /\ log[tx].client = client
       /\ log[tx].is_deposit
       /\ tx \notin tracker
    THEN LET amt == log[tx].amount
         IN [balance |-> [balance EXCEPT !.available = @ - amt, !.held = @ + amt],
             dispute_tracker |-> tracker \cup {tx}]
    ELSE [balance |-> balance, dispute_tracker |-> tracker]

\* apply_resolve that returns an error for a transaction id it does not find
apply_resolve_errs(balance, tx, client, log, tracker) ==
    IF /\ tx \in DOMAIN log
       /\ log[tx].client = client
       /\ tx \in tracker
    THEN LET amt == log[tx].amount
         IN [balance |-> [balance EXCEPT !.available = @ + amt, !.held = @ - amt],
             dispute_tracker |-> tracker \ {tx}, ok |-> TRUE]
    ELSE [balance |-> balance, dispute_tracker |-> tracker, ok |-> tx \in DOMAIN log]

\* apply_resolve that takes the funds out of held but does not release them
apply_resolve_drops_funds(balance, tx, client, log, tracker) ==
    IF /\ tx \in DOMAIN log
       /\ log[tx].client = client
       /\ tx \in tracker
    THEN LET amt == log[tx].amount
         IN [balance |-> [balance EXCEPT !.held = @ - amt],
             dispute_tracker |-> tracker \ {tx}, ok |-> TRUE]
    ELSE [balance |-> balance, dispute_tracker |-> tracker, ok |-> TRUE]

\* apply_resolve that releases the funds but leaves held as it was
apply_resolve_keeps_held(balance, tx, client, log, tracker) ==
    IF /\ tx \in DOMAIN log
       /\ log[tx].client = client
       /\ tx \in tracker
    THEN LET amt == log[tx].amount
         IN [balance |-> [balance EXCEPT !.available = @ + amt],
             dispute_tracker |-> tracker \ {tx}, ok |-> TRUE]
    ELSE [balance |-> balance, dispute_tracker |-> tracker, ok |-> TRUE]

\* apply_resolve: the balance and the dispute set it leaves; ok is its
\* Result, always Ok(())
apply_resolve(balance, tx, client, log, tracker) ==
    IF /\ tx \in DOMAIN log
       /\ log[tx].client = client
       /\ tx \in tracker
    THEN LET amt == log[tx].amount
         IN [balance |-> [balance EXCEPT !.available = @ + amt, !.held = @ - amt],
             dispute_tracker |-> tracker \ {tx}, ok |-> TRUE]
    ELSE [balance |-> balance, dispute_tracker |-> tracker, ok |-> TRUE]

\* apply_chargeback that returns the held funds to available
apply_chargeback_refunds(balance, tx, client, log, tracker) ==
    IF /\ tx \in DOMAIN log
       /\ log[tx].client = client
       /\ tx \in tracker
    THEN LET amt == log[tx].amount
         IN [balance |-> [balance EXCEPT !.available = @ + amt, !.held = @ - amt,
                                         !.locked = TRUE],
             dispute_tracker |-> tracker \ {tx}, ok |-> TRUE]
    ELSE [balance |-> balance, dispute_tracker |-> tracker, ok |-> TRUE]

\* apply_chargeback that ignores the result of dispute_tracker.remove
apply_chargeback_ungated(balance, tx, client, log, tracker) ==
    IF /\ tx \in DOMAIN log
       /\ log[tx].client = client
    THEN LET amt == log[tx].amount
         IN [balance |-> [balance EXCEPT !.held = @ - amt, !.locked = TRUE],
             dispute_tracker |-> tracker \ {tx}, ok |-> TRUE]
    ELSE [balance |-> balance, dispute_tracker |-> tracker, ok |-> TRUE]

\* apply_chargeback: the balance and the dispute set it leaves; ok is its
\* Result, always Ok(())
apply_chargeback(balance, tx, client, log, tracker) ==
    IF /\ tx \in DOMAIN log
       /\ log[tx].client = client
       /\ tx \in tracker
    THEN LET amt == log[tx].amount
         IN [balance |-> [balance EXCEPT !.held = @ - amt, !.locked = TRUE],
             dispute_tracker |-> tracker \ {tx}, ok |-> TRUE]
    ELSE [balance |-> balance, dispute_tracker |-> tracker, ok |-> TRUE]

\* cleanup_transaction that does not look at the dispute set
cleanup_transaction_always(log, tracker, tx) ==
    remove(log, tx)

\* cleanup_transaction: the log it leaves
cleanup_transaction(log, tracker, tx) ==
    IF tx \notin tracker THEN remove(log, tx) ELSE log

\* One iteration of the loop of process_transactions on state st (a ledger, a
\* log and a dispute set): the state the iteration leaves.  ok is FALSE when
\* the iteration leaves the function through `?`.
process(st, rec) ==
    LET balances == or_insert_with(st.client_balances, rec.client)
        balance == balances[rec.client]
    IN CASE rec.type = "deposit" ->
              LET r == apply_deposit(st.transaction_log, balance, rec.tx, rec.client,
                                     rec.amount)
              IN [client_balances |-> [balances EXCEPT ![rec.client] = r.balance],
                  transaction_log |-> r.transaction_log,
                  dispute_tracker |-> st.dispute_tracker,
                  ok |-> TRUE]
         [] rec.type = "withdrawal" ->
              LET r == apply_withdrawal(balance, rec.tx, rec.client, rec.amount,
                                        st.transaction_log)
              IN [client_balances |-> [balances EXCEPT ![rec.client] = r.balance],
                  transaction_log |-> r.transaction_log,
                  dispute_tracker |-> st.dispute_tracker,
                  ok |-> TRUE]
         [] rec.type = "dispute" ->
              LET r == apply_dispute(balance, rec.tx, rec.client, st.transaction_log,
                                     st.dispute_tracker)
              IN [client_balances |-> [balances EXCEPT ![rec.client] = r.balance],
                  transaction_log |-> st.transaction_log,
                  dispute_tracker |-> r.dispute_tracker,
                  ok |-> TRUE]
         [] rec.type = "resolve" ->
              LET r == apply_resolve(balance, rec.tx, rec.client, st.transaction_log,
                                     st.dispute_tracker)
              IN [client_balances |-> [balances EXCEPT ![rec.client] = r.balance],
                  transaction_log |->
                      IF r.ok THEN cleanup_transaction(st.transaction_log,
                                                       r.dispute_tracker, rec.tx)
                      ELSE st.transaction_log,
                  dispute_tracker |-> r.dispute_tracker,
                  ok |-> r.ok]
         [] rec.type = "chargeback" ->
              LET r == apply_chargeback(balance, rec.tx, rec.client,
                                        st.transaction_log, st.dispute_tracker)
              IN [client_balances |-> [balances EXCEPT ![rec.client] = r.balance],
                  transaction_log |->
                      IF r.ok THEN cleanup_transaction(st.transaction_log,
                                                       r.dispute_tracker, rec.tx)
                      ELSE st.transaction_log,
                  dispute_tracker |-> r.dispute_tracker,
                  ok |-> r.ok]

\* One iteration of the loop on the current state.
process_record(rec) ==
    process([client_balances |-> client_balances,
             transaction_log |-> transaction_log,
             dispute_tracker |-> dispute_tracker], rec)

\* format_decimal: the digits of a value rounded to 4 fractional digits; a
\* value is a count of ten-thousandths, so the rounding is exact
format_decimal(value) ==
    LET abs == IF value < 0 THEN -value ELSE value
    IN [negative |-> value < 0, int |-> abs \div 10000, frac |-> abs % 10000]

RECURSIVE write_records(_, _)
\* the loop of main over the sorted client ids: one row per account
write_records(balances, client_ids) ==
    IF client_ids = {} THEN <<>>
    ELSE LET id == CHOOSE c \in client_ids : \A d \in client_ids : c <= d
             balance == balances[id]
         IN <<[client |-> id,
               available |-> format_decimal(balance.available),
               held |-> format_decimal(balance.held),
               total |-> format_decimal(balance.available + balance.held),
               locked |-> IF balance.locked THEN "true" ELSE "false"]>>
            \o write_records(balances, client_ids \ {id})

\* main after process_transactions returned Ok: the header and the rows
write_output(balances) ==
    [header |-> <<"client", "available", "held", "total", "locked">>,
     rows |-> write_records(balances, DOMAIN balances)]

Init ==
    /\ client_balances = <<>>
    /\ transaction_log = <<>>
    /\ dispute_tracker = {}
    /\ nops = 0
    /\ status = "running"
    /\ output = [header |-> <<>>, rows |-> <<>>]
    /\ sample = <<0, 0>>
    /\ recorded = {}
    /\ disputed = {}
    /\ resolved = {}
    /\ charged_back = {}

\* the loop body runs on record rec: the program state after the iteration
\* (the streams of the model are bounded by the actions that call it)
Step(rec) ==
    \E s \in {process_record(rec)} :
       /\ status = "running"
       /\ nops' = nops + 1
       /\ client_balances' = s.client_balances
       /\ transaction_log' = s.transaction_log
       /\ dispute_tracker' = s.dispute_tracker
       /\ status' = IF s.ok THEN "running" ELSE "apply_error"
       /\ output' = output
       /\ sample' = <<follow(Sample1, sample[1], rec), follow(Sample2, sample[2], rec)>>
       /\ recorded' = IF /\ rec.type \in {"deposit", "withdrawal"}
                         /\ rec.tx \in DOMAIN s.transaction_log \ DOMAIN transaction_log
                      THEN recorded \cup {rec.tx} ELSE recorded
       /\ disputed' = IF /\ rec.type = "dispute"
                         /\ rec.tx \in s.dispute_tracker \ dispute_tracker
                      THEN disputed \cup {rec.tx} ELSE disputed
       /\ resolved' = IF /\ rec.type = "resolve"
                         /\ rec.tx \in dispute_tracker \ s.dispute_tracker
                      THEN resolved \cup {rec.tx} ELSE resolved
       /\ charged_back' = IF /\ rec.type = "chargeback"
                             /\ rec.tx \in dispute_tracker \ s.dispute_tracker
                          THEN charged_back \cup {rec.client} ELSE charged_back

\* OperationType::Deposit arm of process_transactions
Deposit ==
    \E client \in Clients, tx \in TxIds, amount \in Amounts :
        /\ nops < MaxOps
        /\ Step(OperationRecord("deposit", client, tx, amount))

\* OperationType::Withdrawal arm of process_transactions
Withdrawal ==
    \E client \in Clients, tx \in TxIds, amount \in Amounts :
        /\ nops < MaxOps
        /\ Step(OperationRecord("withdrawal", client, tx, amount))

\* OperationType::Dispute arm of process_transactions
Dispute ==
    \E client \in Clients, tx \in TxIds :
        /\ nops < MaxOps
        /\ Step(OperationRecord("dispute", client, tx, {}))

\* OperationType::Resolve arm of process_transactions
Resolve ==
    \E client \in Clients, tx \in TxIds :
        /\ nops < MaxOps
        /\ Step(OperationRecord("resolve", client, tx, {}))

\* OperationType::Chargeback arm of process_transactions
Chargeback ==
    \E client \in Clients, tx \in TxIds :
        /\ nops < MaxOps
        /\ Step(OperationRecord("chargeback", client, tx, {}))

\* the reader delivers a record that does not deserialize: process_transactions
\* returns the error and main returns it before writing anything
Malformed ==
    /\ status = "running"
    /\ nops < MaxOps
    /\ nops' = nops + 1
    /\ status' = "parse_error"
    /\ UNCHANGED <<client_balances, transaction_log, dispute_tracker, output,
                   sample, recorded, disputed, resolved, charged_back>>

\* the reader is exhausted: process_transactions returns the ledger and main
\* writes the header and one row per account
Finish ==
    /\ status = "running"
    /\ status' = "done"
    /\ output' = write_output(client_balances)
    /\ UNCHANGED <<client_balances, transaction_log, dispute_tracker, nops,
                   sample, recorded, disputed, resolved, charged_back>>

Next ==
    \/ Deposit
    \/ Withdrawal
    \/ Dispute
    \/ Resolve
    \/ Chargeback

\* the loop of process_transactions over streams of well-formed records
Spec == Init /\ [][Next]_vars

\* a whole run of main: the stream may hold a malformed record, and it ends
NextRun ==
    \/ Next
    \/ Malformed
    \/ Finish

SpecRun == Init /\ [][NextRun]_vars

\* the loop reads a record of the sample streams, in any order
SampleStep ==
    \E rec \in SampleRecords :
        /\ nops < SampleLen
        /\ Step(rec)

\* the loop of process_transactions over streams made of the sample records
SpecSample == Init /\ [][SampleStep]_vars

TypeOK ==
    /\ DOMAIN client_balances \subseteq Nat
    /\ DOMAIN transaction_log \subseteq Nat
    /\ dispute_tracker \subseteq DOMAIN transaction_log
    /\ nops \in 0..(IF MaxOps > SampleLen THEN MaxOps ELSE SampleLen)
    /\ status \in {"running", "parse_error", "apply_error", "done"}

----------------------------------------------------------------------------
(* Helpers of the properties.  A property of a transition is stated in the *)
(* state before it, on process_record(rec), the state the iteration leaves. *)

\* available and held of client c in ledger bals; a client without an account
\* has nothing available and nothing held
AvailHeld(bals, c) ==
    IF c \in DOMAIN bals THEN <<bals[c].available, bals[c].held>> ELSE <<0, 0>>

\* no account of the current ledger has a field changed in ledger bals
AccountsUnchanged(bals) ==
    \A c \in DOMAIN client_balances :
        c \in DOMAIN bals /\ bals[c] = client_balances[c]

\* available and held of every client are the same in ledger bals as now
AvailHeldUnchanged(bals) ==
    \A c \in Clients : AvailHeld(bals, c) = AvailHeld(client_balances, c)

RECURSIVE SumAmounts(_, _)
\* sum of the logged amounts of the transaction ids in S
SumAmounts(log, S) ==
    IF S = {} THEN 0
    ELSE LET t == CHOOSE x \in S : TRUE
         IN log[t].amount + SumAmounts(log, S \ {t})

\* the open disputes of client c: disputed ids whose logged owner is c
OpenDisputes(c) ==
    {t \in dispute_tracker : t \in DOMAIN transaction_log
                             /\ transaction_log[t].client = c}

\* preconditions of resolve and chargeback
ResolvePre(tx, client) ==
    /\ tx \in DOMAIN transaction_log
    /\ transaction_log[tx].client = client
    /\ tx \in dispute_tracker

\* available of a client's account as the loop sees it (created if absent)
Available(client) ==
    or_insert_with(client_balances, client)[client].available

----------------------------------------------------------------------------
\* C1: after any sequence of operations every account has held >= 0.
C1_HeldNonNegative ==
    \A c \in DOMAIN client_balances : client_balances[c].held >= 0

\* C1 witness: a chargeback succeeded for a client that owns another logged
\* deposit: the held funds are gone and held is back at zero.
C1_Witness ==
    \E c \in DOMAIN client_balances :
        /\ c \in charged_back
        /\ client_balances[c].held = 0
        /\ \E t \in DOMAIN transaction_log :
               transaction_log[t].client = c /\ transaction_log[t].is_deposit

\* C2: after every operation, held of every account is the sum of the logged
\* amounts of the ids in the dispute set whose logged owner is that client.
C2_HeldIsSumOfOpenDisputes ==
    \A c \in DOMAIN client_balances :
        client_balances[c].held = SumAmounts(transaction_log, OpenDisputes(c))

\* C2 witness: a client has two open disputes and held is the sum of both
\* amounts.
C2_Witness ==
    \E c \in DOMAIN client_balances :
        /\ Cardinality(OpenDisputes(c)) = 2
        /\ client_balances[c].held
             = SumAmounts(transaction_log, OpenDisputes(c))
        /\ client_balances[c].held > MaxAmt

\* C3 (as claimed): an id is in the log iff a deposit or withdrawal with it
\* succeeded and it was never disputed or is currently disputed.
C3_LogIffRecordedAndNotClosed ==
    \A t \in TxIds :
        t \in DOMAIN transaction_log
            <=> (t \in recorded /\ (t \notin disputed \/ t \in dispute_tracker))

\* C4 (as claimed): a deposit or withdrawal that reuses the id of an earlier
\* successful deposit or withdrawal changes available and held of no account.
C4_UsedIdNeverAccepted ==
    \A type \in {"deposit", "withdrawal"}, client \in Clients,
       tx \in recorded, amount \in Amounts :
        AvailHeldUnchanged(
            process_record(OperationRecord(type, client, tx, amount)).client_balances)

\* C5: once a chargeback has succeeded for a client the account is locked in
\* every later state, and every later deposit or withdrawal of that client
\* leaves its available and held unchanged and the log unchanged.
C5_LockedForever ==
    \A c \in charged_back :
        /\ c \in DOMAIN client_balances
        /\ client_balances[c].locked
        /\ \A type \in {"deposit", "withdrawal"}, tx \in TxIds, amount \in Amounts :
              \A s \in {process_record(OperationRecord(type, c, tx, amount))} :
                 /\ s.client_balances[c] = client_balances[c]
                 /\ s.transaction_log = transaction_log

\* C5 witness: a client with an earlier chargeback, a free transaction id and
\* a record still to be read: a deposit of a positive amount is turned down
\* by the lock alone.
C5_Witness ==
    \E c \in charged_back, tx \in TxIds \ DOMAIN transaction_log :
        /\ nops < MaxOps
        /\ process_record(OperationRecord("deposit", c, tx, {1})).client_balances[c]
               = client_balances[c]

\* C6 (as claimed): once an id has been successfully resolved, every later
\* dispute naming it changes no balance and does not put it in the dispute set.
C6_ResolvedNeverRedisputed ==
    \A client \in Clients, tx \in resolved \ dispute_tracker :
        \A s \in {process_record(OperationRecord("dispute", client, tx, {}))} :
           /\ AccountsUnchanged(s.client_balances)
           /\ tx \notin s.dispute_tracker

\* C7 (as claimed): a resolve or chargeback whose preconditions fail changes
\* no account, not the dispute set and not the transaction log.
C7_FailedResolveIsNoOp ==
    \A type \in {"resolve", "chargeback"}, client \in Clients, tx \in TxIds :
        ~ResolvePre(tx, client)
            => \A s \in {process_record(OperationRecord(type, client, tx, {}))} :
                  /\ AccountsUnchanged(s.client_balances)
                  /\ s.dispute_tracker = dispute_tracker
                  /\ s.transaction_log = transaction_log

\* C8: a withdrawal whose amount is strictly greater than the available of
\* the account leaves available, held and locked unchanged and records no
\* transaction under its id.
C8_InsufficientFundsRejected ==
    \A client \in Clients, tx \in TxIds, amount \in Amounts :
        (\E amt \in amount : amt > Available(client))
            => \A s \in {process_record(OperationRecord("withdrawal", client, tx, amount))} :
                  /\ s.client_balances[client]
                      = or_insert_with(client_balances, client)[client]
                  /\ s.transaction_log = transaction_log

\* C8 witness: an unlocked account that has withdrawn funds before and has
\* nothing below zero, a free id and a record still to be read: a withdrawal
\* of a positive amount above the available is turned down by the funds test
\* alone.
C8_Witness ==
    \E client \in DOMAIN client_balances, tx \in TxIds \ DOMAIN transaction_log,
       amount \in Amounts :
        /\ nops < MaxOps
        /\ ~client_balances[client].locked
        /\ client_balances[client].available >= 0
        /\ \E t \in DOMAIN transaction_log :
               transaction_log[t].client = client /\ ~transaction_log[t].is_deposit
        /\ \E amt \in amount : amt > client_balances[client].available
        /\ process_record(OperationRecord("withdrawal", client, tx, amount))
               .transaction_log = transaction_log

\* C9: a dispute naming an id whose log record is a withdrawal changes
\* available and held of no account and does not put the id in the dispute set.
C9_WithdrawalNotDisputable ==
    \A client \in Clients, tx \in DOMAIN transaction_log :
        ~transaction_log[tx].is_deposit
            => \A s \in {process_record(OperationRecord("dispute", client, tx, {}))} :
                  /\ AvailHeldUnchanged(s.client_balances)
                  /\ tx \notin s.dispute_tracker

\* C9 witness: a withdrawal is logged, undisputed, and its owner can dispute
\* it with the next record; the dispute set stays as it is.
C9_Witness ==
    \E tx \in DOMAIN transaction_log :
        /\ nops < MaxOps
        /\ ~transaction_log[tx].is_deposit
        /\ process_record(OperationRecord("dispute", transaction_log[tx].client,
                                          tx, {})).dispute_tracker = dispute_tracker

\* C10: a dispute naming an id that is not in the log, or is logged for another
\* client, or is already disputed, changes no account, not the dispute set
\* and not the log.
C10_RejectedDisputeIsNoOp ==
    \A client \in Clients, tx \in TxIds :
        (\/ tx \notin DOMAIN transaction_log
         \/ transaction_log[tx].client # client
         \/ tx \in dispute_tracker)
            => \A s \in {process_record(OperationRecord("dispute", client, tx, {}))} :
                  /\ AccountsUnchanged(s.client_balances)
                  /\ s.dispute_tracker = dispute_tracker
                  /\ s.transaction_log = transaction_log

\* C10 witness: an undisputed deposit is logged for one client and another
\* client, whose account exists, can dispute it with the next record; that
\* client's account stays as it is.
C10_Witness ==
    \E client \in DOMAIN client_balances, tx \in DOMAIN transaction_log :
        /\ nops < MaxOps
        /\ transaction_log[tx].is_deposit
        /\ transaction_log[tx].client # client
        /\ tx \notin dispute_tracker
        /\ process_record(OperationRecord("dispute", client, tx, {}))
               .client_balances[client] = client_balances[client]

----------------------------------------------------------------------------
C12_SampleBalances ==
    sample[1] = Len(Sample1)
        => client_balances =
              (1 :> [available |-> dec(1, 5000), held |-> 0, locked |-> FALSE]
               @@ 2 :> [available |-> dec(2, 0), held |-> 0, locked |-> FALSE])

\* C12 witness: the whole of Sample1 has been read; the last withdrawal left
\* no record.
C12_Witness ==
    /\ sample[1] = Len(Sample1)
    /\ Sample1[Len(Sample1)].tx \notin DOMAIN transaction_log

\* C13: the stream of Sample2, read from the empty state, leaves client 1
\* with available 10.0, nothing held and locked.
C13_DisputeChainBalances ==
    sample[2] = Len(Sample2)
        => /\ 1 \in DOMAIN client_balances
           /\ client_balances[1]
                = [available |-> dec(10, 0), held |-> 0, locked |-> TRUE]

\* C13 witness: the whole of Sample2 has been read, its resolve and its
\* chargeback succeeded.
C13_Witness ==
    /\ sample[2] = Len(Sample2)
    /\ 1 \in resolved
    /\ 1 \in charged_back

\* C14: whatever record is read, its client has an account afterwards, no
\* account is removed, and an account that is new starts from available 0,
\* held 0, unlocked (a new account can only be changed by an accepted
\* deposit, which makes available the amount).
C14_AccountsCreatedAndKept ==
    \A type \in OperationType, client \in Clients, tx \in TxIds :
     \A amount \in (IF type \in {"deposit", "withdrawal"} THEN Amounts ELSE {{}}) :
      \A s \in {process_record(OperationRecord(type, client, tx, amount))} :
        LET accepted == /\ type = "deposit"
                        /\ tx \notin DOMAIN transaction_log
                        /\ \E amt \in amount : amt > 0
        IN /\ client \in DOMAIN s.client_balances
           /\ DOMAIN client_balances \subseteq DOMAIN s.client_balances
           /\ client \notin DOMAIN client_balances
                => /\ s.client_balances[client].held = 0
                   /\ ~s.client_balances[client].locked
                   /\ \/ accepted /\ amount = {s.client_balances[client].available}
                      \/ ~accepted /\ s.client_balances[client].available = 0

\* C14 witness: no deposit or withdrawal has ever succeeded, yet records were
\* read: the clients they named have accounts, all zero and unlocked, and
\* some other client has none yet.
C14_Witness ==
    /\ nops > 0
    /\ recorded = {}
    /\ DOMAIN client_balances # {}
    /\ DOMAIN client_balances # Clients
    /\ \A c \in DOMAIN client_balances :
          client_balances[c] = [available |-> 0, held |-> 0, locked |-> FALSE]

\* C15: a deposit or withdrawal whose amount is absent, zero or negative
\* leaves the account unchanged and the log unchanged, so its id stays free.
C15_NonPositiveAmountRejected ==
    \A type \in {"deposit", "withdrawal"}, client \in Clients, tx \in TxIds,
       amount \in Amounts :
        (amount = {} \/ \E amt \in amount : amt <= 0)
            => \A s \in {process_record(OperationRecord(type, client, tx, amount))} :
                  /\ s.client_balances[client]
                      = or_insert_with(client_balances, client)[client]
                  /\ s.transaction_log = transaction_log

\* C15 witness: an unlocked account with funds, a free id and a record still
\* to be read: only the amount can turn a deposit or a withdrawal down.
C15_Witness ==
    \E client \in DOMAIN client_balances, tx \in TxIds \ DOMAIN transaction_log :
        /\ nops < MaxOps
        /\ ~client_balances[client].locked
        /\ client_balances[client].available > 0
        /\ \A amount \in {{}, {0}, {-1}} :
              process_record(OperationRecord("deposit", client, tx, amount))
                  .client_balances[client] = client_balances[client]

\* C16: a deposit (withdrawal) of a positive amount on an unlocked account
\* under an id that is not logged (and with available >= amount) adds the
\* amount to (takes it from) available, leaves held and locked, and logs the
\* id with the client, the amount and is_deposit true (false).
C16_DepositWithdrawalEffect ==
    \A type \in {"deposit", "withdrawal"}, client \in Clients,
       tx \in TxIds \ DOMAIN transaction_log, amount \in Amounts :
      \A s \in {process_record(OperationRecord(type, client, tx, amount))} :
        LET balance == or_insert_with(client_balances, client)[client]
        IN \A amt \in amount :
              (/\ amt > 0
               /\ ~balance.locked
               /\ type = "withdrawal" => balance.available >= amt)
                 => /\ s.client_balances[client].available
                        = IF type = "deposit" THEN balance.available + amt
                          ELSE balance.available - amt
                    /\ s.client_balances[client].held = balance.held
                    /\ s.client_balances[client].locked = balance.locked
                    /\ DOMAIN s.transaction_log = DOMAIN transaction_log \cup {tx}
                    /\ s.transaction_log[tx]
                        = [client |-> client, amount |-> amt,
                           is_deposit |-> (type = "deposit")]
                    /\ \A t \in DOMAIN transaction_log :
                          s.transaction_log[t] = transaction_log[t]

\* C16 witness: an unlocked account with funds, a free id and a record still
\* to be read: a withdrawal of all the funds is accepted and logged.
C16_Witness ==
    \E client \in DOMAIN client_balances, tx \in TxIds \ DOMAIN transaction_log :
        /\ nops < MaxOps
        /\ ~client_balances[client].locked
        /\ client_balances[client].available > 0
        /\ tx \in DOMAIN process_record(
                     OperationRecord("withdrawal", client, tx,
                                     {client_balances[client].available}))
                     .transaction_log

\* C17: a dispute by the owner of a logged deposit that is not disputed
\* always succeeds, locked or not, funds or not: available goes down by the
\* amount, held up by it, their sum stays, and the id is in the dispute set.
C17_OwnerDisputeAlwaysSucceeds ==
    \A tx \in DOMAIN transaction_log \ dispute_tracker :
        transaction_log[tx].is_deposit
            => LET client == transaction_log[tx].client
                   amt == transaction_log[tx].amount
                   balance == or_insert_with(client_balances, client)[client]
               IN \A s \in {process_record(OperationRecord("dispute", client, tx, {}))} :
                  /\ s.client_balances[client].available = balance.available - amt
                  /\ s.client_balances[client].held = balance.held + amt
                  /\ s.client_balances[client].available
                       + s.client_balances[client].held
                       = balance.available + balance.held
                  /\ s.client_balances[client].locked = balance.locked
                  /\ s.dispute_tracker = dispute_tracker \cup {tx}

\* C17 witness: the owner of a logged deposit that is not disputed has less
\* available than the amount of the deposit, and a record is still to be
\* read.
C17_Witness ==
    \E tx \in DOMAIN transaction_log \ dispute_tracker :
        /\ nops < MaxOps
        /\ transaction_log[tx].is_deposit
        /\ client_balances[transaction_log[tx].client].available
             < transaction_log[tx].amount

\* C18: a successful dispute followed at once by the resolve of the same id
\* by the same client leaves available, held and locked of the account as
\* they were before the dispute.
C18_DisputeThenResolveRestores ==
    \A tx \in DOMAIN transaction_log \ dispute_tracker :
        transaction_log[tx].is_deposit
            => LET client == transaction_log[tx].client
                   s1 == process_record(OperationRecord("dispute", client, tx, {}))
                   s2 == process(s1, OperationRecord("resolve", client, tx, {}))
               IN /\ tx \in s1.dispute_tracker
                  /\ tx \notin s2.dispute_tracker
                  /\ s2.client_balances[client] = client_balances[client]

\* C18 witness: the owner of a logged deposit that is not disputed has spent
\* part of it, so the dispute drives available below zero before the resolve
\* restores it; two records are still to be read.
C18_Witness ==
    \E tx \in DOMAIN transaction_log \ dispute_tracker :
        /\ nops + 2 <= MaxOps
        /\ transaction_log[tx].is_deposit
        /\ client_balances[transaction_log[tx].client].available
             < transaction_log[tx].amount
        /\ ~client_balances[transaction_log[tx].client].locked

\* C19: a successful chargeback takes the logged amount out of held, leaves
\* available (so the total drops by the amount), locks the account, and
\* removes the id from the dispute set and its record from the log.
C19_ChargebackEffect ==
    \A client \in Clients, tx \in TxIds :
        ResolvePre(tx, client)
            => LET amt == transaction_log[tx].amount
               IN \A s \in {process_record(OperationRecord("chargeback", client, tx, {}))} :
                  /\ s.client_balances[client].held
                       = client_balances[client].held - amt
                  /\ s.client_balances[client].available
                       = client_balances[client].available
                  /\ s.client_balances[client].locked
                  /\ s.dispute_tracker = dispute_tracker \ {tx}
                  /\ DOMAIN s.transaction_log = DOMAIN transaction_log \ {tx}

\* C19 witness: an unlocked account has an open dispute and a record is
\* still to be read.
C19_Witness ==
    \E client \in DOMAIN client_balances, tx \in dispute_tracker :
        /\ nops < MaxOps
        /\ ResolvePre(tx, client)
        /\ ~client_balances[client].locked
        /\ client_balances[client].held > 0

\* C20: right after a resolve or a chargeback, accepted or not and whoever
\* issued it, the id it names is in the dispute set or not in the log, and
\* no record whose id is in the dispute set has left the log.
C20_CleanupKeepsDisputedRecords ==
    \A type \in {"resolve", "chargeback"}, client \in Clients, tx \in TxIds :
        \A s \in {process_record(OperationRecord(type, client, tx, {}))} :
           /\ tx \in s.dispute_tracker \/ tx \notin DOMAIN s.transaction_log
           /\ \A t \in DOMAIN transaction_log :
                 t \in s.dispute_tracker => t \in DOMAIN s.transaction_log

\* C20 witness: an id is disputed and a client that does not own it can
\* issue a resolve with the next record: the record stays in the log.
C20_Witness ==
    \E client \in Clients, tx \in dispute_tracker :
        /\ nops < MaxOps
        /\ transaction_log[tx].client # client
        /\ tx \in DOMAIN process_record(OperationRecord("resolve", client, tx, {}))
                            .transaction_log

\* C21: in every reachable state every transaction id of the dispute set has
\* a record in the transaction log, and that record is a deposit with a
\* strictly positive amount.
C21_DisputedAreLoggedDeposits ==
    \A tx \in dispute_tracker :
        /\ tx \in DOMAIN transaction_log
        /\ transaction_log[tx].is_deposit
        /\ transaction_log[tx].amount > 0

\* C21 witness: an id is disputed after cleanup_transaction has taken the
\* record of another id out of the log.
C21_Witness ==
    /\ dispute_tracker # {}
    /\ recorded \ DOMAIN transaction_log # {}

\* C22: whatever the next record is, every account of a client other than
\* the client of the record is still there afterwards with the same
\* available, held and locked.
C22_OnlyOwnAccountChanges ==
    \A client \in Clients :
        DOMAIN client_balances \ {client} # {}
            => \A type \in OperationType, tx \in TxIds :
                \A amount \in (IF type \in {"deposit", "withdrawal"}
                                THEN Amounts ELSE {{}}) :
                    \A s \in {process_record(OperationRecord(type, client, tx, amount))} :
                        \A other \in DOMAIN client_balances \ {client} :
                            /\ other \in DOMAIN s.client_balances
                            /\ s.client_balances[other] = client_balances[other]

\* C22 witness: an account holds the funds of an open dispute, another
\* client has an account with funds available, and that client can name
\* the disputed id in the next record.
C22_Witness ==
    \E tx \in dispute_tracker, client \in DOMAIN client_balances :
        /\ nops < MaxOps
        /\ transaction_log[tx].client # client
        /\ client_balances[transaction_log[tx].client].held > 0
        /\ client_balances[client].available > 0
====
